---------------------------- MODULE Spec2Model ----------------------------
(***************************************************************************)
(* A model of roarsvg (src/src/lib.rs): the translation of a lyon path's   *)
(* event stream into usvg path data (lyon_path_to_usvg) and the LyonWriter *)
(* that accumulates nodes and builds the usvg tree (prepare / write).      *)
(*                                                                         *)
(* Coordinates are finite f32 values in the source; here they are small    *)
(* integers, on which the f32 operations used (comparison, +, -, min, max) *)
(* are exact.  The one place where a non-finite value arises, the division *)
(* by nodes.len() in prepare, is modelled with an explicit NaN value.      *)
(***************************************************************************)
EXTENDS Integers, Sequences, FiniteSets, TLC

VARIABLES
    \* ---- LyonWriter<T> (lib.rs 69-73) and what its caller observes
    nodes,              \* self.nodes: Vec<NodeKind>
    global_transform,   \* self.global_transform: Option<SvgTransform>
    fontdb,             \* the type-state T: "NoText" or "Some" (Option<Fp>)
    consumed,           \* TRUE once write(self) has taken the writer by value
    tree,               \* what prepare returned to write (None before write)
    last,               \* the most recent call on the writer and its return
    \* ---- one run of lyon_path_to_usvg (lib.rs 430-488)
    path,               \* the argument: the events path.iter() yields
    idx,                \* position of the for loop in path (1-based)
    upath_builder,      \* let mut upath_builder = PathBuilder::new()
    current,            \* let mut current = None
    geometry            \* the return value, once the loop has finished

writer_vars == <<nodes, global_transform, fontdb, consumed, tree, last>>
translate_vars == <<path, idx, upath_builder, current, geometry>>
vars == <<nodes, global_transform, fontdb, consumed, tree, last,
          path, idx, upath_builder, current, geometry>>

(***************************************************************************)
(* Bounds of the model.                                                    *)
(***************************************************************************)
\* longest event stream given to the translator
MaxEvents == 4
\* most nodes a writer accumulates before it is written
MaxNodes == 3

(***************************************************************************)
(* Option<T>: None is the empty sequence, Some(x) the one-element one.     *)
(***************************************************************************)
None == << >>
Some(x) == <<x>>
IsSome(o) == o # None
Unwrap(o) == o[1]

(***************************************************************************)
(* Points and lyon path events (lyon_path::Event).                         *)
(***************************************************************************)
Pts == {<<0, 0>>, <<1, 2>>}
\* the control point of the curves drawn from Pts (it never decides a branch)
CtrlPt == <<2, 1>>

Begin(at) == [type |-> "Begin", at |-> at]
Line(from, to) == [type |-> "Line", from |-> from, to |-> to]
Quadratic(from, ctrl, to) ==
    [type |-> "Quadratic", from |-> from, ctrl |-> ctrl, to |-> to]
Cubic(from, ctrl1, ctrl2, to) ==
    [type |-> "Cubic", from |-> from, ctrl1 |-> ctrl1, ctrl2 |-> ctrl2, to |-> to]
End(lastp, first, close) ==
    [type |-> "End", last |-> lastp, first |-> first, close |-> close]

\* The event alphabet of the translator runs.  Every arm of the match and
\* both outcomes of every comparison with the cursor occur; the fields that
\* decide no branch (control points, End's first) are fixed, and there is one
\* Quadratic and one Cubic, to keep the number of streams small.
Events ==
    {Begin(p) : p \in Pts}
    \cup {Line(p, q) : p \in Pts, q \in Pts}
    \cup {Quadratic(<<0, 0>>, CtrlPt, <<1, 2>>)}
    \cup {Cubic(<<1, 2>>, CtrlPt, CtrlPt, <<0, 0>>)}
    \cup {End(p, <<0, 0>>, c) : p \in Pts, c \in BOOLEAN}

RECURSIVE SeqsUpTo(_, _)
SeqsUpTo(S, n) ==
    IF n = 0 THEN {<< >>}
    ELSE LET shorter == SeqsUpTo(S, n - 1)
         IN  shorter \cup {Append(s, e) : s \in {t \in shorter : Len(t) = n - 1}, e \in S}

EventStreams == SeqsUpTo(Events, MaxEvents)

(***************************************************************************)
(* tiny_skia_path::PathBuilder, as lyon_path_to_usvg drives it.            *)
(* verbs and points are its two vectors; points is indexed from 0 in the   *)
(* source and from 1 here.                                                 *)
(***************************************************************************)
PathBuilderNew ==
    [verbs |-> << >>, points |-> << >>,
     last_move_to_index |-> 0, move_to_required |-> TRUE]

LastVerb(b) == IF b.verbs = << >> THEN "none" ELSE b.verbs[Len(b.verbs)]

\* a mutant of MoveTo: every move_to pushes a new Move verb
MoveTo_AlwaysPush(b, p) ==
    [b EXCEPT !.last_move_to_index = Len(b.points),
              !.move_to_required = FALSE,
              !.verbs = Append(@, "Move"),
              !.points = Append(@, p)]

\* PathBuilder::move_to: a Move directly after a Move replaces its point
MoveTo(b, p) ==
    IF LastVerb(b) = "Move"
    THEN [b EXCEPT !.points[Len(b.points)] = p]
    ELSE [b EXCEPT !.last_move_to_index = Len(b.points),
                   !.move_to_required = FALSE,
                   !.verbs = Append(@, "Move"),
                   !.points = Append(@, p)]

\* a mutant of InjectMoveToIfNeeded: no Move is ever injected
InjectMoveToIfNeeded_Never(b) == b

\* PathBuilder::inject_move_to_if_needed
InjectMoveToIfNeeded(b) ==
    IF b.move_to_required
    THEN IF b.last_move_to_index < Len(b.points)
         THEN MoveTo(b, b.points[b.last_move_to_index + 1])
         ELSE MoveTo(b, <<0, 0>>)
    ELSE b

\* PathBuilder::line_to
LineTo(b, p) ==
    LET c == InjectMoveToIfNeeded(b)
    IN  [c EXCEPT !.verbs = Append(@, "Line"), !.points = Append(@, p)]

\* PathBuilder::quad_to
QuadTo(b, ctrl, p) ==
    LET c == InjectMoveToIfNeeded(b)
    IN  [c EXCEPT !.verbs = Append(@, "Quad"), !.points = @ \o <<ctrl, p>>]

\* PathBuilder::cubic_to
CubicTo(b, ctrl1, ctrl2, p) ==
    LET c == InjectMoveToIfNeeded(b)
    IN  [c EXCEPT !.verbs = Append(@, "Cubic"), !.points = @ \o <<ctrl1, ctrl2, p>>]

\* PathBuilder::close: no Close as the first verb, none after a Close
ClosePath(b) ==
    LET c == IF b.verbs # << >> /\ LastVerb(b) # "Close"
             THEN [b EXCEPT !.verbs = Append(@, "Close")]
             ELSE b
    IN  [c EXCEPT !.move_to_required = TRUE]

RECURSIVE MinOf(_)
MinOf(S) == LET x == CHOOSE y \in S : TRUE
            IN  IF S = {x} THEN x
                ELSE LET m == MinOf(S \ {x}) IN IF x <= m THEN x ELSE m

RECURSIVE MaxOf(_)
MaxOf(S) == LET x == CHOOSE y \in S : TRUE
            IN  IF S = {x} THEN x
                ELSE LET m == MaxOf(S \ {x}) IN IF x >= m THEN x ELSE m

\* Rect::from_points over finite points: the box of all points of the path
RectFromPoints(points) ==
    LET xs == {points[i][1] : i \in 1..Len(points)}
        ys == {points[i][2] : i \in 1..Len(points)}
    IN  [left |-> MinOf(xs), right |-> MaxOf(xs),
         top |-> MinOf(ys), bottom |-> MaxOf(ys)]

\* PathBuilder::finish: no path for no verb or for a lone Move
Finish(b) ==
    IF b.verbs = << >> \/ Len(b.verbs) = 1
    THEN None
    ELSE Some([verbs |-> b.verbs, points |-> b.points,
               bounds |-> RectFromPoints(b.points)])

(***************************************************************************)
(* lyon_path_to_usvg: one operator per arm of the match on the event.      *)
(* Each maps the loop's state (upath_builder, current) to the next one.    *)
(***************************************************************************)
\* a mutant of ImplicitMove: the test from != current_point is dropped
ImplicitMove_Always(b, cur, from) ==
    IF IsSome(cur) THEN MoveTo(b, from) ELSE b

\* if let Some(current_point) = current { if from != current_point { move_to } }
ImplicitMove(b, cur, from) ==
    IF IsSome(cur) /\ from # Unwrap(cur) THEN MoveTo(b, from) ELSE b

OnBeginEvent(b, cur, ev) ==
    [upath_builder |-> MoveTo(b, ev.at), current |-> Some(ev.at)]

OnLineEvent(b, cur, ev) ==
    [upath_builder |-> LineTo(ImplicitMove(b, cur, ev.from), ev.to),
     current |-> Some(ev.to)]

OnQuadraticEvent(b, cur, ev) ==
    [upath_builder |-> QuadTo(ImplicitMove(b, cur, ev.from), ev.ctrl, ev.to),
     current |-> Some(ev.to)]

OnCubicEvent(b, cur, ev) ==
    [upath_builder |->
        CubicTo(ImplicitMove(b, cur, ev.from), ev.ctrl1, ev.ctrl2, ev.to),
     current |-> Some(ev.to)]

OnEndEvent(b, cur, ev) ==
    LET moved == ImplicitMove(b, cur, ev.last)
    IN  [upath_builder |->
            IF ev.close THEN ClosePath(LineTo(moved, ev.first)) ELSE moved,
         current |-> Some(ev.last)]

OnEvent(b, cur, ev) ==
    CASE ev.type = "Begin" -> OnBeginEvent(b, cur, ev)
      [] ev.type = "Line" -> OnLineEvent(b, cur, ev)
      [] ev.type = "Quadratic" -> OnQuadraticEvent(b, cur, ev)
      [] ev.type = "Cubic" -> OnCubicEvent(b, cur, ev)
      [] ev.type = "End" -> OnEndEvent(b, cur, ev)

RECURSIVE RunEvents(_, _, _)
RunEvents(b, cur, events) ==
    IF events = << >> THEN b
    ELSE LET st == OnEvent(b, cur, Head(events))
         IN  RunEvents(st.upath_builder, st.current, Tail(events))

\* the whole function: Option<PathData>
lyon_path_to_usvg(events) == Finish(RunEvents(PathBuilderNew, None, events))

(***************************************************************************)
(* The translator run event by event.                                      *)
(***************************************************************************)
WriterInit ==
    /\ nodes = << >>
    /\ global_transform = None
    /\ fontdb = "NoText"
    /\ consumed = FALSE
    /\ tree = None
    /\ last = [op |-> "new", path |-> << >>, font_size |-> None, trans |-> None,
               ret |-> "Ok"]

TranslateInit ==
    /\ WriterInit
    /\ path \in EventStreams
    /\ idx = 1
    /\ upath_builder = PathBuilderNew
    /\ current = None
    /\ geometry = [done |-> FALSE, data |-> None]

InLoop(type) ==
    /\ ~geometry.done
    /\ idx <= Len(path)
    /\ path[idx].type = type

Advance(st) ==
    /\ upath_builder' = st.upath_builder
    /\ current' = st.current
    /\ idx' = idx + 1
    /\ UNCHANGED <<path, geometry>>
    /\ UNCHANGED writer_vars

BeginArm ==
    /\ InLoop("Begin")
    /\ Advance(OnBeginEvent(upath_builder, current, path[idx]))

LineArm ==
    /\ InLoop("Line")
    /\ Advance(OnLineEvent(upath_builder, current, path[idx]))

QuadraticArm ==
    /\ InLoop("Quadratic")
    /\ Advance(OnQuadraticEvent(upath_builder, current, path[idx]))

CubicArm ==
    /\ InLoop("Cubic")
    /\ Advance(OnCubicEvent(upath_builder, current, path[idx]))

EndArm ==
    /\ InLoop("End")
    /\ Advance(OnEndEvent(upath_builder, current, path[idx]))

FinishPath ==
    /\ ~geometry.done
    /\ idx > Len(path)
    /\ geometry' = [done |-> TRUE, data |-> Finish(upath_builder)]
    /\ UNCHANGED <<path, idx, upath_builder, current>>
    /\ UNCHANGED writer_vars

TranslateNext ==
    \/ BeginArm
    \/ LineArm
    \/ QuadraticArm
    \/ CubicArm
    \/ EndArm
    \/ FinishPath

TranslateSpec == TranslateInit /\ [][TranslateNext]_vars


(***************************************************************************)
(* f32 values that may be non-finite: a ratio of integers, NaN or an       *)
(* infinity.                                                               *)
(***************************************************************************)
Fin(num, den) == [k |-> "fin", num |-> num, den |-> den]
NaN == [k |-> "nan", num |-> 0, den |-> 0]
Inf(sign) == [k |-> "inf", num |-> sign, den |-> 0]
IsFinite(x) == x.k = "fin"

\* f32 division of the finite value t2/2 by the count n
DivideByLen(t2, n) ==
    IF n # 0 THEN Fin(t2, 2 * n)
    ELSE IF t2 = 0 THEN NaN
    ELSE IF t2 > 0 THEN Inf(1) ELSE Inf(-1)

(***************************************************************************)
(* Nodes (usvg::NodeKind).  fill and stroke are the presence of the        *)
(* Option; pushed is the node's identity: its position among the pushes.   *)
(***************************************************************************)
Identity == 0
Transforms == {1, 2}
NoData == [verbs |-> << >>, points |-> << >>,
           bounds |-> [left |-> 0, right |-> 0, top |-> 0, bottom |-> 0]]

PathNode(data, fill, stroke, transform, n) ==
    [kind |-> "Path", data |-> data, fill |-> fill, stroke |-> stroke,
     transform |-> transform, font_size |-> None, pushed |-> n]

TextNode(font_size, fill, stroke, transform, n) ==
    [kind |-> "Text", data |-> NoData, fill |-> fill, stroke |-> stroke,
     transform |-> transform, font_size |-> Some(font_size), pushed |-> n]

GroupNode(n) ==
    [kind |-> "Group", data |-> NoData, fill |-> FALSE, stroke |-> FALSE,
     transform |-> Identity, font_size |-> None, pushed |-> n]

\* lyon_path_to_svg_with_attributes: Option<SvgPath>, as the node it becomes
lyon_path_to_svg_with_attributes(events, fill, stroke, transform, n) ==
    LET data == lyon_path_to_usvg(events)
    IN  IF data = None THEN None
        ELSE Some(PathNode(Unwrap(data), fill, stroke,
                           IF IsSome(transform) THEN Unwrap(transform) ELSE Identity,
                           n))

\* a mutant of NonZeroPositiveF32New: zero is accepted
NonZeroPositiveF32New_AcceptsZero(x) ==
    IF IsFinite(x) /\ x.num >= 0 THEN Some(x) ELSE None

\* NonZeroPositiveF32::new: finite and > 0
NonZeroPositiveF32New(x) ==
    IF IsFinite(x) /\ x.num > 0 THEN Some(x) ELSE None

(***************************************************************************)
(* The arguments the writer's caller draws from.                           *)
(***************************************************************************)
\* the <<path, transform>> arguments of push: two paths without geometry (no
\* event; a lone Begin) and a closed segment left of the origin
WriterPaths ==
    { << << >>, None >>,
      << <<Begin(<<0, 0>>), End(<<0, 0>>, <<0, 0>>, FALSE)>>, None >>,
      << <<Begin(<<-3, 1>>), Line(<<-3, 1>>, <<-1, 2>>), End(<<-1, 2>>, <<-3, 1>>, TRUE)>>,
         Some(1) >> }

\* the <<fill, stroke>> presence a push_text is given
TextStyles == {<<FALSE, FALSE>>, <<TRUE, TRUE>>}

FontSizes == {Fin(12, 1), Fin(0, 1), Fin(-1, 1), NaN, Inf(1)}

\* what the caller sees of a call: its name, its arguments, what it returned
Call(op, events, font_size, trans, ret) ==
    [op |-> op, path |-> events, font_size |-> font_size, trans |-> trans,
     ret |-> ret]

(***************************************************************************)
(* prepare (lib.rs 152-220).                                               *)
(***************************************************************************)
\* match_node reaches unreachable!() on a node that is neither Path nor Text
MatchNodePanics(ns) == \E i \in 1..Len(ns) : ns[i].kind \notin {"Path", "Text"}

\* self.nodes.iter().filter_map(match_node): the bounds of the Path nodes
RECURSIVE PathBounds(_)
PathBounds(ns) ==
    IF ns = << >> THEN << >>
    ELSE IF Head(ns).kind = "Path"
         THEN <<Head(ns).data.bounds>> \o PathBounds(Tail(ns))
         ELSE PathBounds(Tail(ns))

min_an_max(acc, bound) ==
    [min_x |-> IF acc.min_x <= bound.left THEN acc.min_x ELSE bound.left,
     max_x |-> IF acc.max_x >= bound.right THEN acc.max_x ELSE bound.right,
     min_y |-> IF acc.min_y <= bound.top THEN acc.min_y ELSE bound.top,
     max_y |-> IF acc.max_y >= bound.bottom THEN acc.max_y ELSE bound.bottom]

RECURSIVE FoldMinAnMax(_, _)
FoldMinAnMax(acc, bs) ==
    IF bs = << >> THEN acc ELSE FoldMinAnMax(min_an_max(acc, Head(bs)), Tail(bs))

\* the fold of the midpoints, kept doubled: the sums of right+left, bottom+top
RECURSIVE FoldTotal2(_, _)
FoldTotal2(acc, bs) ==
    IF bs = << >> THEN acc
    ELSE FoldTotal2([x |-> acc.x + (Head(bs).right + Head(bs).left),
                     y |-> acc.y + (Head(bs).bottom + Head(bs).top)], Tail(bs))

\* a mutant of CenterDivisor: only the nodes that have bounds are counted
CenterDivisor_ShapesOnly(ns) == Len(PathBounds(ns))

\* self.nodes.len() as f32: the count of all nodes
CenterDivisor(ns) == Len(ns)

\* a mutant of FlooredExtent: the extent is passed on as computed
FlooredExtent_NoFloor(d) == d

\* if d > 0. { d } else { 2.0 }
FlooredExtent(d) == IF d > 0 THEN d ELSE 2

\* Size::from_wh
SizeFromWh(w, h) ==
    IF w > 0 /\ h > 0 THEN Some([width |-> w, height |-> h]) ELSE None

\* NonZeroRect::from_xywh: finite edges, right > left, bottom > top
NonZeroRectFromXywh(x, y, w, h) ==
    IF IsFinite(x) /\ IsFinite(y) /\ w > 0 /\ h > 0
    THEN Some([x |-> x, y |-> y, width |-> w, height |-> h])
    ELSE None

B2I(b) == IF b THEN 1 ELSE 0

\* a mutant of StyleKey: the weights of fill and stroke are exchanged
StyleKey_Swapped(n) == B2I(n.fill) + 2 * B2I(n.stroke)

\* 2 * fill.is_some() as u8 + stroke.is_some() as u8
StyleKey(n) == 2 * B2I(n.fill) + B2I(n.stroke)

\* a mutant of Compare: Text sorts before Path
Compare_TextFirst(a, b) ==
    CASE a.kind = "Text" /\ b.kind = "Path" -> "Less"
      [] a.kind = "Path" /\ b.kind = "Text" -> "Greater"
      [] a.kind = "Path" /\ b.kind = "Path" ->
            IF StyleKey(a) < StyleKey(b) THEN "Less"
            ELSE IF StyleKey(a) > StyleKey(b) THEN "Greater" ELSE "Equal"
      [] OTHER -> "Equal"

\* the closure given to sort_unstable_by
Compare(a, b) ==
    CASE a.kind = "Text" /\ b.kind = "Path" -> "Greater"
      [] a.kind = "Path" /\ b.kind = "Text" -> "Less"
      [] a.kind = "Path" /\ b.kind = "Path" ->
            IF StyleKey(a) < StyleKey(b) THEN "Less"
            ELSE IF StyleKey(a) > StyleKey(b) THEN "Greater" ELSE "Equal"
      [] OTHER -> "Equal"

IndexPermutations(n) ==
    {p \in [1..n -> 1..n] : \A i, j \in 1..n : i # j => p[i] # p[j]}

\* slice::sort_unstable_by: the slice ends up ordered by the comparison, and
\* the order of elements that compare Equal is whatever the sort leaves
SortUnstableBy(ns) ==
    {[i \in 1..Len(ns) |-> ns[p[i]]] : p \in
        {q \in IndexPermutations(Len(ns)) :
            \A i \in 1..(Len(ns) - 1) : Compare(ns[q[i]], ns[q[i + 1]]) # "Greater"}}

\* the usvg tree: root group, one child group, the nodes appended to it
BuildTree(ordered, gt) ==
    [kind |-> "Group", transform |-> Identity,
     children |-> << [kind |-> "Group",
                      transform |-> IF IsSome(gt) THEN Unwrap(gt) ELSE Identity,
                      children |-> ordered] >>]

NoTree == [kind |-> "Group", transform |-> Identity, children |-> << >>]

PrepareResult(status, size, view_box, root) ==
    [status |-> status, size |-> size, view_box |-> view_box, root |-> root]

\* every Result prepare can return for the writer (ns, gt); "panic" stands
\* for the abort in match_node
Prepare(ns, gt) ==
    IF MatchNodePanics(ns)
    THEN {PrepareResult("panic", None, None, NoTree)}
    ELSE LET box == FoldMinAnMax([min_x |-> 0, max_x |-> 0, min_y |-> 0, max_y |-> 0],
                                 PathBounds(ns))
             total2 == FoldTotal2([x |-> 0, y |-> 0], PathBounds(ns))
             center_x == DivideByLen(total2.x, CenterDivisor(ns))
             center_y == DivideByLen(total2.y, CenterDivisor(ns))
             width == FlooredExtent(box.max_x - box.min_x)
             height == FlooredExtent(box.max_y - box.min_y)
             size == SizeFromWh(width, height)
             rect == NonZeroRectFromXywh(center_x, center_y, width, height)
         IN  IF size = None \/ rect = None
             THEN {PrepareResult("WrongBoundingBox", None, None, NoTree)}
             ELSE {PrepareResult("Ok", size, rect, BuildTree(ordered, gt)) :
                      ordered \in SortUnstableBy(ns)}

(***************************************************************************)
(* The operations of LyonWriter.                                           *)
(***************************************************************************)
TranslateIdle ==
    /\ path = << >>
    /\ idx = 1
    /\ upath_builder = PathBuilderNew
    /\ current = None
    /\ geometry = [done |-> FALSE, data |-> None]

\* LyonWriter::new
Init == WriterInit /\ TranslateIdle

Open == ~consumed /\ Len(nodes) < MaxNodes

\* push (lib.rs 124-136)
Push ==
    /\ Open
    /\ \E arg \in WriterPaths, fill \in BOOLEAN, stroke \in BOOLEAN :
        LET events == arg[1]
            transform == arg[2]
            op == lyon_path_to_svg_with_attributes(events, fill, stroke, transform,
                                                   Len(nodes) + 1)
        IN  IF op = None
            THEN /\ last' = Call("push", events, None, None, "SvgFailure")
                 /\ UNCHANGED nodes
            ELSE /\ nodes' = Append(nodes, Unwrap(op))
                 /\ last' = Call("push", events, None, None, "Ok")
    /\ UNCHANGED <<global_transform, fontdb, consumed, tree>>
    /\ UNCHANGED translate_vars

\* the nodes a caller hands to push_node
DirectNodes(n) ==
    { GroupNode(n),
      TextNode(Fin(12, 1), TRUE, FALSE, Identity, n),
      PathNode([verbs |-> <<"Move", "Line">>, points |-> <<<<1, 1>>, <<2, 3>>>>,
                bounds |-> [left |-> 1, right |-> 2, top |-> 1, bottom |-> 3]],
               FALSE, TRUE, Identity, n) }

\* push_node (lib.rs 141-143)
PushNode ==
    /\ Open
    /\ \E node \in DirectNodes(Len(nodes) + 1) :
        /\ nodes' = Append(nodes, node)
        /\ last' = Call("push_node", << >>, None, None, "Ok")
    /\ UNCHANGED <<global_transform, fontdb, consumed, tree>>
    /\ UNCHANGED translate_vars

\* a mutant of WithTransform: the new transform is composed with the old one
WithTransform_Composes ==
    /\ ~consumed
    /\ \E trans \in Transforms :
        /\ global_transform' =
              Some((IF IsSome(global_transform) THEN Unwrap(global_transform)
                    ELSE Identity) + trans)
        /\ last' = Call("with_transform", << >>, None, Some(trans), "Ok")
    /\ UNCHANGED <<nodes, fontdb, consumed, tree>>
    /\ UNCHANGED translate_vars

\* with_transform (lib.rs 146-149)
WithTransform ==
    /\ ~consumed
    /\ \E trans \in Transforms :
        /\ global_transform' = Some(trans)
        /\ last' = Call("with_transform", << >>, None, Some(trans), "Ok")
    /\ UNCHANGED <<nodes, fontdb, consumed, tree>>
    /\ UNCHANGED translate_vars

\* add_fonts (lib.rs 223-229): the writer is rebuilt with fontdb: Some(fonts)
AddFonts ==
    /\ ~consumed
    /\ fontdb' = "Some"
    /\ last' = Call("add_fonts", << >>, None, None, "Ok")
    /\ UNCHANGED <<nodes, global_transform, consumed, tree>>
    /\ UNCHANGED translate_vars

\* add_fonts_dir (lib.rs 232-243)
AddFontsDir ==
    /\ ~consumed
    /\ fontdb' = "Some"
    /\ last' = Call("add_fonts_dir", << >>, None, None, "Ok")
    /\ UNCHANGED <<nodes, global_transform, consumed, tree>>
    /\ UNCHANGED translate_vars

\* a mutant of TextEnabled: push_text exists on every writer
TextEnabled_Always == TRUE

\* impl<T: FontProvider> LyonWriter<Option<T>>: the writers that have
\* push_text and the text-converting write
TextEnabled == fontdb = "Some"

\* push_text (lib.rs 328-391)
PushText ==
    /\ Open
    /\ TextEnabled
    /\ \E font_size \in FontSizes, style \in TextStyles :
        LET size == NonZeroPositiveF32New(font_size)
            fill == style[1]
            stroke == style[2]
        IN  IF size = None
            THEN /\ last' = Call("push_text", << >>, Some(font_size), None, "FontFailure")
                 /\ UNCHANGED nodes
            ELSE /\ nodes' = Append(nodes, TextNode(Unwrap(size), fill, stroke,
                                                    Identity, Len(nodes) + 1))
                 /\ last' = Call("push_text", << >>, Some(font_size), None, "Ok")
    /\ UNCHANGED <<global_transform, fontdb, consumed, tree>>
    /\ UNCHANGED translate_vars

\* what write returns: prepare's error, or the outcome of writing the file
WriteReturn(status, io_ok) ==
    IF status # "Ok" THEN status ELSE IF io_ok THEN "Ok" ELSE "IoWrite"

\* LyonWriter<NoText>::write (lib.rs 260-270).  The writer is taken by value;
\* nodes and global_transform keep the values prepare was given.
Write ==
    /\ ~consumed
    /\ fontdb = "NoText"
    /\ \E result \in Prepare(nodes, global_transform), io_ok \in BOOLEAN :
        /\ tree' = Some(result)
        /\ last' = Call("write", << >>, None, None, WriteReturn(result.status, io_ok))
    /\ consumed' = TRUE
    /\ UNCHANGED <<nodes, global_transform, fontdb>>
    /\ UNCHANGED translate_vars

\* LyonWriter<Option<T>>::write (lib.rs 395-412).  fontdb is Some on every
\* such writer (only add_fonts and add_fonts_dir construct one), so take()
\* never yields NoFonts; convert_text then works on the tree prepare returned.
WriteText ==
    /\ ~consumed
    /\ TextEnabled
    /\ fontdb = "Some"
    /\ \E result \in Prepare(nodes, global_transform), io_ok \in BOOLEAN :
        /\ tree' = Some(result)
        /\ last' = Call("write", << >>, None, None, WriteReturn(result.status, io_ok))
    /\ consumed' = TRUE
    /\ UNCHANGED <<nodes, global_transform, fontdb>>
    /\ UNCHANGED translate_vars

Next ==
    \/ Push
    \/ PushNode
    \/ WithTransform
    \/ AddFonts
    \/ AddFontsDir
    \/ PushText
    \/ Write
    \/ WriteText

Spec == Init /\ [][Next]_vars

(***************************************************************************)
(* Properties of the translation (checked under TranslateSpec).            *)
(***************************************************************************)
IsSegment(ev) == ev.type \in {"Line", "Quadratic", "Cubic"}

\* the point an event leaves the cursor at
EndPoint(ev) ==
    CASE ev.type = "Begin" -> ev.at
      [] ev.type = "End" -> ev.last
      [] OTHER -> ev.to

\* the verb a segment event is translated to
VerbOf(ev) ==
    CASE ev.type = "Line" -> "Line"
      [] ev.type = "Quadratic" -> "Quad"
      [] ev.type = "Cubic" -> "Cubic"

\* Begin, then n >= 1 segments each starting where the previous event ended,
\* then an End at the point the last segment reached
ContiguousPath(p) ==
    /\ Len(p) >= 3
    /\ p[1].type = "Begin"
    /\ p[Len(p)].type = "End"
    /\ p[Len(p)].last = EndPoint(p[Len(p) - 1])
    /\ \A k \in 2..(Len(p) - 1) : IsSegment(p[k]) /\ p[k].from = EndPoint(p[k - 1])

\* some drawing event comes with no Begin before it
DrawsBeforeBegin(p) ==
    \E k \in 1..Len(p) :
        /\ IsSegment(p[k])
        /\ \A j \in 1..(k - 1) : p[j].type # "Begin"

\* C3: a path of Begin, n >= 1 contiguous segments and End translates to
\* MoveTo plus one command per segment (n+1 commands), followed by
\* LineTo(first) and Close when the End is closed (n+3 commands).
C3_CommandCount ==
    (geometry.done /\ ContiguousPath(path)) =>
        LET n == Len(path) - 2
            e == path[Len(path)]
        IN  /\ IsSome(geometry.data)
            /\ LET d == Unwrap(geometry.data)
               IN  /\ Len(d.verbs) = IF e.close THEN n + 3 ELSE n + 1
                   /\ d.verbs[1] = "Move"
                   /\ d.points[1] = path[1].at
                   /\ \A k \in 1..n : d.verbs[k + 1] = VerbOf(path[k + 1])
                   /\ e.close =>
                        /\ d.verbs[n + 2] = "Line"
                        /\ d.verbs[n + 3] = "Close"
                        /\ d.points[Len(d.points)] = e.first

\* two line segments and a closed End have given 5 commands
C3_Witness ==
    /\ geometry.done
    /\ ContiguousPath(path)
    /\ Len(path) = 4
    /\ path[2].type = "Line"
    /\ path[3].type = "Line"
    /\ path[4].close
    /\ IsSome(geometry.data)
    /\ Unwrap(geometry.data).verbs = <<"Move", "Line", "Line", "Line", "Close">>

\* the loop is about to take the Line arm with a cursor that is set and
\* differs from the event's from
DiscontinuousLineStep ==
    /\ ~geometry.done
    /\ idx <= Len(path)
    /\ path[idx].type = "Line"
    /\ idx' = idx + 1
    /\ IsSome(current)
    /\ path[idx].from # Unwrap(current)

\* commands the same Line event adds when its from is the cursor
ContinuousLineAdds ==
    Len(OnLineEvent(upath_builder, current,
                    Line(Unwrap(current), path[idx].to)).upath_builder.verbs)
    - Len(upath_builder.verbs)

EndsWithMoveLine(b, from, to) ==
    /\ Len(b.verbs) >= 2
    /\ SubSeq(b.verbs, Len(b.verbs) - 1, Len(b.verbs)) = <<"Move", "Line">>
    /\ SubSeq(b.points, Len(b.points) - 1, Len(b.points)) = <<from, to>>

\* C4 as stated: a Line whose from differs from the cursor always adds the
\* two commands MoveTo(from), LineTo(to), one more than the continuous Line,
\* whatever came before.
C4_Original ==
    [][DiscontinuousLineStep =>
        /\ upath_builder'.verbs = upath_builder.verbs \o <<"Move", "Line">>
        /\ upath_builder'.points =
              upath_builder.points \o <<path[idx].from, path[idx].to>>
        /\ Len(upath_builder'.verbs) - Len(upath_builder.verbs)
              = ContinuousLineAdds + 1]_vars

\* C4 amended: a Line whose from differs from the cursor leaves the output
\* ending in MoveTo(from), LineTo(to).  It adds two commands unless the last
\* command so far is a MoveTo, which is then replaced by MoveTo(from) so that
\* only LineTo(to) is added; and it adds one command more than the continuous
\* Line exactly when the last command so far is a LineTo, QuadTo or CubicTo.
C4_ImplicitMove ==
    [][DiscontinuousLineStep =>
        LET added == Len(upath_builder'.verbs) - Len(upath_builder.verbs)
        IN  /\ EndsWithMoveLine(upath_builder', path[idx].from, path[idx].to)
            /\ added = IF LastVerb(upath_builder) = "Move" THEN 1 ELSE 2
            /\ (added = ContinuousLineAdds + 1)
                  <=> LastVerb(upath_builder) \in {"Line", "Quad", "Cubic"}]_vars

\* a Line that did not start at the Begin point has just been translated:
\* the Begin's MoveTo was replaced and the output has two commands
C4_Witness ==
    /\ idx = 3
    /\ path[1].type = "Begin"
    /\ path[2].type = "Line"
    /\ path[2].from # path[1].at
    /\ upath_builder.verbs = <<"Move", "Line">>
    /\ upath_builder.points = <<path[2].from, path[2].to>>

\* a successful translation is non-empty and starts with a MoveTo
StartsWithMove ==
    (geometry.done /\ IsSome(geometry.data)) =>
        /\ Unwrap(geometry.data).verbs # << >>
        /\ Unwrap(geometry.data).verbs[1] = "Move"

\* C5 as stated: a successful translation is non-empty and starts with a
\* MoveTo, and a stream with a drawing event before any Begin is rejected.
C5_Original ==
    /\ StartsWithMove
    /\ (geometry.done /\ DrawsBeforeBegin(path)) => geometry.data = None

\* C5 amended: a successful translation is non-empty and starts with a
\* MoveTo; a stream with a drawing event before any Begin is not rejected: it
\* is translated, and when its first event is a drawing event the geometry
\* starts with the injected MoveTo(0,0).
C5_FirstIsMove ==
    /\ StartsWithMove
    /\ (geometry.done /\ DrawsBeforeBegin(path)) => IsSome(geometry.data)
    /\ (geometry.done /\ path # << >> /\ IsSegment(path[1])) =>
            Unwrap(geometry.data).points[1] = <<0, 0>>

\* a stream that starts with a Line has been translated to geometry
C5_Witness ==
    /\ geometry.done
    /\ path # << >>
    /\ path[1].type = "Line"
    /\ IsSome(geometry.data)
    /\ Unwrap(geometry.data).verbs[1] = "Move"


(***************************************************************************)
(* Properties of the writer (checked under Spec).                          *)
(***************************************************************************)
\* prepare has returned a tree
Built == IsSome(tree) /\ Unwrap(tree).status = "Ok"

\* the children of the group the nodes were appended to
Children == Unwrap(tree).root.children[1].children

IsShape(n) == n.kind = "Path"
IsText(n) == n.kind = "Text"
Unstyled(n) == IsShape(n) /\ ~n.fill /\ ~n.stroke
StrokeOnly(n) == IsShape(n) /\ ~n.fill /\ n.stroke
FillOnly(n) == IsShape(n) /\ n.fill /\ ~n.stroke
FillAndStroke(n) == IsShape(n) /\ n.fill /\ n.stroke

\* the key of the ordering as the specification words it
OrderingKey(n) == 2 * (IF n.fill THEN 1 ELSE 0) + (IF n.stroke THEN 1 ELSE 0)

\* C1: in the built child list every shape node comes before every text
\* node, and among the shape nodes the key 2*(fill present) + (stroke present)
\* never decreases.
C1_Ordered ==
    Built =>
        \A i, j \in 1..Len(Children) :
            i < j =>
                /\ ~(IsText(Children[i]) /\ IsShape(Children[j]))
                /\ (IsShape(Children[i]) /\ IsShape(Children[j])) =>
                      OrderingKey(Children[i]) <= OrderingKey(Children[j])

\* a text node, a fill-and-stroke shape and an unstyled shape were pushed in
\* that order, and the tree was built
C1_Witness ==
    /\ Built
    /\ Len(nodes) = 3
    /\ IsText(nodes[1])
    /\ FillAndStroke(nodes[2])
    /\ Unstyled(nodes[3])
    /\ Children = <<nodes[3], nodes[2], nodes[1]>>

\* C2: the reordering is stable: of two nodes that compare equal (two shapes
\* with the same fill/stroke presence, two text nodes) the one pushed earlier
\* comes earlier in the built tree.
C2_Stable ==
    Built =>
        \A i, j \in 1..Len(Children) :
            (/\ i < j
             /\ \/ IsText(Children[i]) /\ IsText(Children[j])
                \/ /\ IsShape(Children[i])
                   /\ IsShape(Children[j])
                   /\ OrderingKey(Children[i]) = OrderingKey(Children[j]))
            => Children[i].pushed < Children[j].pushed

\* the call that just returned was a push of a path, or a push_text
PushCall(c) == c.op \in {"push", "push_text"}

FinitePositive(x) == x.k = "fin" /\ x.num > 0

\* C6: a push of a path without geometry and a push_text with a size that is
\* not finite and positive return an error; a push that returns an error
\* leaves the nodes and the global transform as they were; a push that
\* succeeds appends exactly one node at the end and changes nothing else.
C6_AtomicPush ==
    [][/\ (last'.op = "push" /\ lyon_path_to_usvg(last'.path) = None)
            => last'.ret # "Ok"
       /\ (last'.op = "push_text" /\ ~FinitePositive(Unwrap(last'.font_size)))
            => last'.ret # "Ok"
       /\ (PushCall(last') /\ last'.ret # "Ok")
            => /\ nodes' = nodes
               /\ global_transform' = global_transform
               /\ fontdb' = fontdb
       /\ (PushCall(last') /\ last'.ret = "Ok")
            => /\ Len(nodes') = Len(nodes) + 1
               /\ SubSeq(nodes', 1, Len(nodes)) = nodes
               /\ nodes'[Len(nodes')].kind
                     = (IF last'.op = "push" THEN "Path" ELSE "Text")
               /\ global_transform' = global_transform
               /\ fontdb' = fontdb]_vars

\* after a transform and one node, a push_text of size 0 has been refused and
\* the writer is as it was
C6_Witness ==
    /\ last.op = "push_text"
    /\ last.font_size = Some(Fin(0, 1))
    /\ last.ret = "FontFailure"
    /\ Len(nodes) = 1
    /\ IsSome(global_transform)

TextOnly(ns) == \A i \in 1..Len(ns) : IsText(ns[i])

\* what build does with a writer that holds no node at all
EmptyWriterBuilds == \E r \in Prepare(<< >>, None) : r.status = "Ok"

\* C7: build on a writer without shape nodes (no node, or text nodes only)
\* follows one policy for all of them, the one the empty writer gets: always
\* the bounding-box error or always a viewport floored to a positive size;
\* and no viewport returned has a NaN width, height or center.
C7_SinglePolicy ==
    (IsSome(tree) /\ TextOnly(nodes)) =>
        /\ (Unwrap(tree).status = "Ok") <=> EmptyWriterBuilds
        /\ Unwrap(tree).status = "Ok" =>
              LET vb == Unwrap(Unwrap(tree).view_box)
              IN  /\ IsFinite(vb.x)
                  /\ IsFinite(vb.y)
                  /\ vb.width > 0
                  /\ vb.height > 0

\* C8 as stated: the capability is fixed at construction: a writer without
\* fonts never becomes one that accepts push_text, and a font-enabled one
\* never loses the capability.
C8_Original ==
    [][/\ fontdb = "NoText" => fontdb' = "NoText"
       /\ fontdb = "Some" => fontdb' = "Some"]_vars

\* C8 amended: push_text is accepted only on a font-enabled writer; a writer
\* becomes font-enabled only through add_fonts or add_fonts_dir, which can be
\* called at any point of its life and keep its nodes and global transform;
\* a font-enabled writer never loses the capability.
C8_Capability ==
    [][/\ last'.op = "push_text" => (fontdb = "Some" /\ fontdb' = "Some")
       /\ (fontdb = "NoText" /\ fontdb' = "Some")
            => /\ last'.op \in {"add_fonts", "add_fonts_dir"}
               /\ nodes' = nodes
               /\ global_transform' = global_transform
       /\ fontdb = "Some" => fontdb' = "Some"]_vars

\* a writer that was given a shape and a transform before it was given fonts
\* has accepted a push_text
C8_Witness ==
    /\ Len(nodes) = 2
    /\ IsShape(nodes[1])
    /\ IsText(nodes[2])
    /\ IsSome(global_transform)
    /\ last.op = "push_text"
    /\ last.ret = "Ok"

\* the tree is a root group with one child group that carries transform t and
\* holds every node of ns once, in an order the comparison accepts
TreeHolds(r, ns, t) ==
    /\ r.kind = "Group"
    /\ r.transform = Identity
    /\ Len(r.children) = 1
    /\ r.children[1].kind = "Group"
    /\ r.children[1].transform = t
    /\ LET cs == r.children[1].children
       IN  /\ Len(cs) = Len(ns)
           /\ \A i \in 1..Len(ns) :
                 Cardinality({j \in 1..Len(cs) : cs[j] = ns[i]}) = 1
           /\ \A i, j \in 1..Len(cs) :
                 i < j =>
                    /\ ~(IsText(cs[i]) /\ IsShape(cs[j]))
                    /\ (IsShape(cs[i]) /\ IsShape(cs[j])) =>
                          OrderingKey(cs[i]) <= OrderingKey(cs[j])

\* C9: with_transform replaces the global transform by its argument and no
\* other call changes it; a successful build returns a root group with
\* exactly one child group, which carries the global transform (identity if
\* none was set) and whose children are the pushed nodes, each once, in the
\* sorted order.
C9_Tree ==
    [][/\ last'.op = "with_transform" => global_transform' = last'.trans
       /\ last'.op # "with_transform" => global_transform' = global_transform
       /\ (last'.op = "write" /\ IsSome(tree') /\ Unwrap(tree').status = "Ok")
            => TreeHolds(Unwrap(tree').root, nodes,
                         IF IsSome(global_transform) THEN Unwrap(global_transform)
                         ELSE Identity)]_vars

\* a tree was built for three nodes after with_transform had been called
\* with 1 and then with 2
C9_Witness ==
    /\ Built
    /\ Len(nodes) = 3
    /\ global_transform = Some(2)
    /\ Unwrap(tree).root.children[1].transform = 2
    /\ Len(Children) = 3

\* C10 as stated: among the shapes every unstyled one comes first, and every
\* fill-only shape comes before every stroke-only shape and before every
\* shape with both fill and stroke.
C10_Original ==
    Built =>
        \A i, j \in 1..Len(Children) :
            /\ (Unstyled(Children[i]) /\ IsShape(Children[j]) /\ ~Unstyled(Children[j]))
                  => i < j
            /\ (FillOnly(Children[i])
                  /\ (StrokeOnly(Children[j]) \/ FillAndStroke(Children[j])))
                  => i < j

\* C10 amended: among the shapes every unstyled one comes first, every
\* stroke-only shape comes before every fill-only shape, and every fill-only
\* shape comes before every shape with both fill and stroke.
C10_StyleOrder ==
    Built =>
        \A i, j \in 1..Len(Children) :
            /\ (Unstyled(Children[i]) /\ IsShape(Children[j]) /\ ~Unstyled(Children[j]))
                  => i < j
            /\ (StrokeOnly(Children[i]) /\ FillOnly(Children[j])) => i < j
            /\ (FillOnly(Children[i]) /\ FillAndStroke(Children[j])) => i < j

\* a fill-only shape pushed before a stroke-only one comes after it in the
\* built tree
C10_Witness ==
    /\ Built
    /\ Len(nodes) = 2
    /\ FillOnly(nodes[1])
    /\ StrokeOnly(nodes[2])
    /\ Children = <<nodes[2], nodes[1]>>

(***************************************************************************)
(* Properties of the viewport (checked under Spec).                        *)
(***************************************************************************)
\* the untransformed bounds of the shape nodes, as sets of edges
Lefts(ns) == {ns[i].data.bounds.left : i \in {j \in 1..Len(ns) : IsShape(ns[j])}}
Rights(ns) == {ns[i].data.bounds.right : i \in {j \in 1..Len(ns) : IsShape(ns[j])}}
Tops(ns) == {ns[i].data.bounds.top : i \in {j \in 1..Len(ns) : IsShape(ns[j])}}
Bottoms(ns) == {ns[i].data.bounds.bottom : i \in {j \in 1..Len(ns) : IsShape(ns[j])}}

\* the extent of the box spanned by the origin and the given edges: the
\* difference when it is positive, 2 otherwise
ExtentWithOrigin(lows, highs) ==
    LET d == MaxOf({0} \cup highs) - MinOf({0} \cup lows)
    IN  IF d > 0 THEN d ELSE 2

\* C11: the viewport box is the box of the origin and the untransformed
\* bounds of the shape nodes; width and height are its extents when positive
\* and 2 otherwise, so every built viewport has width > 0 and height > 0, and
\* build never fails for a zero or negative extent (the only bounding-box
\* failure is the writer without nodes).
C11_ViewportBox ==
    /\ Built =>
          LET size == Unwrap(Unwrap(tree).size)
              vb == Unwrap(Unwrap(tree).view_box)
          IN  /\ size.width = ExtentWithOrigin(Lefts(nodes), Rights(nodes))
              /\ size.height = ExtentWithOrigin(Tops(nodes), Bottoms(nodes))
              /\ vb.width = size.width
              /\ vb.height = size.height
              /\ size.width > 0
              /\ size.height > 0
    /\ (IsSome(tree) /\ Unwrap(tree).status = "WrongBoundingBox") => nodes = << >>

\* a tree was built for a transformed shape left of the origin and a shape
\* right of it: the box reaches from -3 to 2 and from the origin's 0 to 3
C11_Witness ==
    /\ Built
    /\ Len(nodes) = 2
    /\ IsShape(nodes[1])
    /\ nodes[1].transform # Identity
    /\ nodes[1].data.bounds.left = -3
    /\ IsShape(nodes[2])
    /\ nodes[2].data.bounds.right = 2
    /\ Unwrap(Unwrap(tree).size) = [width |-> 5, height |-> 3]

\* the sum over the shape nodes of right + left (twice the midpoint)
RECURSIVE MidSum2X(_)
MidSum2X(ns) ==
    IF ns = << >> THEN 0
    ELSE (IF IsShape(Head(ns))
          THEN Head(ns).data.bounds.right + Head(ns).data.bounds.left ELSE 0)
         + MidSum2X(Tail(ns))

\* the sum over the shape nodes of bottom + top
RECURSIVE MidSum2Y(_)
MidSum2Y(ns) ==
    IF ns = << >> THEN 0
    ELSE (IF IsShape(Head(ns))
          THEN Head(ns).data.bounds.bottom + Head(ns).data.bounds.top ELSE 0)
         + MidSum2Y(Tail(ns))

\* the finite value x is the ratio num / den
IsRatio(x, num, den) == IsFinite(x) /\ x.num * den = num * x.den

\* two finite values are the same number
SameValue(x, y) == x.num * y.den = y.num * x.den

AllButLast(ns) == SubSeq(ns, 1, Len(ns) - 1)

\* C12: the center of the built viewport is, on each axis, the sum of the
\* bounding-box midpoints of the shape nodes divided by the count of all
\* nodes; so a text node added last leaves width and height as they are
\* without it and moves the center on exactly the axes whose midpoint sum is
\* not zero.
C12_Center ==
    Built =>
        LET vb == Unwrap(Unwrap(tree).view_box)
        IN  /\ IsRatio(vb.x, MidSum2X(nodes), 2 * Len(nodes))
            /\ IsRatio(vb.y, MidSum2Y(nodes), 2 * Len(nodes))
            /\ IsText(nodes[Len(nodes)]) =>
                  \A r \in Prepare(AllButLast(nodes), global_transform) :
                      r.status = "Ok" =>
                          LET wb == Unwrap(r.view_box)
                          IN  /\ r.size = Unwrap(tree).size
                              /\ wb.width = vb.width
                              /\ wb.height = vb.height
                              /\ SameValue(wb.x, vb.x) <=> MidSum2X(nodes) = 0
                              /\ SameValue(wb.y, vb.y) <=> MidSum2Y(nodes) = 0

\* a tree was built for two shapes followed by a text node: the midpoint
\* sums -1/2 and 7/2 were divided by 3
C12_Witness ==
    /\ Built
    /\ Len(nodes) = 3
    /\ IsShape(nodes[1])
    /\ IsShape(nodes[2])
    /\ IsText(nodes[3])
    /\ MidSum2X(nodes) = -1
    /\ MidSum2Y(nodes) = 7
    /\ Unwrap(Unwrap(tree).view_box).x = Fin(-1, 6)
    /\ Unwrap(Unwrap(tree).view_box).y = Fin(7, 6)

\* C13: whatever nodes were stored through push, push_text and push_node, a
\* build ends with a tree or with a returned error; the branch of match_node
\* marked unreachable is never taken.
C13_NoAbort ==
    IsSome(tree) => Unwrap(tree).status \in {"Ok", "WrongBoundingBox"}

=============================================================================
